---- MODULE Spec2Model ----
(***************************************************************************)
(* The three user_guide applications with shadowed or validated routes     *)
(* (01_path_parameters.py, query_parameters.py, 04_validations.py) and the  *)
(* validator check_valid_id.  Each application is the ordered table of     *)
(* routes its @app.get decorators register; a request is dispatched to the  *)
(* first route of the table whose path template matches, the framework     *)
(* validates the declared parameters and only then calls the endpoint.     *)
(*                                                                         *)
(* A URL path is the sequence of its segments after the leading slash:      *)
(* "/" is <<"">>, "/users" is <<"users">>, "/items/" is <<"items", "">>.     *)
(* A query string is a function from the names it sets to their raw text.  *)
(***************************************************************************)
EXTENDS Integers, Sequences, FiniteSets, TLC

VARIABLES pc, request, response, fake_items_db

vars == <<pc, request, response, fake_items_db>>

(***************************************************************************)
(* Bounds of the model.                                                    *)
(***************************************************************************)
\* longest request path, in segments, sent to the 01_path_parameters app
pp_MaxPathLen == 3
\* longest request path, in segments, sent to the query_parameters app
qp_MaxPathLen == 4
\* longest request path, in segments, sent to the 04_validations app
va_MaxPathLen == 3
\* most query parameters one request sets
MaxParams == 2
\* longest text sent as the query parameter q of the 04_validations app
MaxQLen == 52
\* longest tail appended to a prefix of a word to make an id
MaxTail == 2

(***************************************************************************)
(* Texts.                                                                  *)
(***************************************************************************)
Digit == {"0", "1", "2", "3", "4", "5", "6", "7", "8", "9"}

IsDigits(s) == Len(s) > 0 /\ \A i \in 1..Len(s) : SubSeq(s, i, i) \in Digit

\* the texts the framework's validation layer accepts for a parameter
\* annotated int (restricted to sign and decimal digits)
IsInt(s) ==
    \/ IsDigits(s)
    \/ Len(s) > 1 /\ SubSeq(s, 1, 1) \in {"-", "+"} /\ IsDigits(SubSeq(s, 2, Len(s)))

DigitVal(c) == CHOOSE d \in 0..9 : SubSeq("0123456789", d + 1, d + 1) = c

RECURSIVE NatOf(_)
NatOf(s) ==
    IF Len(s) = 0 THEN 0
    ELSE 10 * NatOf(SubSeq(s, 1, Len(s) - 1)) + DigitVal(SubSeq(s, Len(s), Len(s)))

IntOf(s) ==
    IF SubSeq(s, 1, 1) = "-" THEN 0 - NatOf(SubSeq(s, 2, Len(s)))
    ELSE IF SubSeq(s, 1, 1) = "+" THEN NatOf(SubSeq(s, 2, Len(s)))
    ELSE NatOf(s)

Upper == "ABCDEFGHIJKLMNOPQRSTUVWXYZ"
Lower == "abcdefghijklmnopqrstuvwxyz"

LowerChar(c) ==
    IF \E i \in 1..26 : SubSeq(Upper, i, i) = c
      THEN LET i == CHOOSE j \in 1..26 : SubSeq(Upper, j, j) = c IN SubSeq(Lower, i, i)
      ELSE c

RECURSIVE ToLower(_)
ToLower(s) ==
    IF Len(s) = 0 THEN ""
    ELSE LowerChar(SubSeq(s, 1, 1)) \o ToLower(SubSeq(s, 2, Len(s)))

\* the texts the validation layer converts to a bool, in any case variation
IsBool(s) ==
    ToLower(s) \in {"1", "true", "t", "on", "yes", "y", "0", "false", "f", "off", "no", "n"}

BoolOf(s) == ToLower(s) \in {"1", "true", "t", "on", "yes", "y"}

RECURSIVE NatStr(_)
NatStr(n) ==
    IF n < 10 THEN SubSeq("0123456789", n + 1, n + 1)
    ELSE NatStr(n \div 10) \o SubSeq("0123456789", (n % 10) + 1, (n % 10) + 1)

\* str(n), as an f-string formats an int
Str(n) == IF n < 0 THEN "-" \o NatStr(0 - n) ELSE NatStr(n)

\* seq[a:b]
Slice(seq, a, b) ==
    LET n == Len(seq)
        norm(i) == IF i < 0 THEN (IF i + n < 0 THEN 0 ELSE i + n)
                   ELSE (IF i > n THEN n ELSE i)
    IN  SubSeq(seq, norm(a) + 1, norm(b))

StartsWith(s, prefix) ==
    Len(s) >= Len(prefix) /\ SubSeq(s, 1, Len(prefix)) = prefix

\* str.startswith with a tuple of prefixes
StartsWithAny(s, prefixes) ==
    \E i \in 1..Len(prefixes) : StartsWith(s, prefixes[i])

\* the text of n copies of c
RECURSIVE Rep(_, _)
Rep(c, n) == IF n = 0 THEN "" ELSE c \o Rep(c, n - 1)

\* the texts over the characters C of length at most n
RECURSIVE Texts(_, _)
Texts(C, n) ==
    IF n = 0 THEN {""} ELSE {""} \cup {c \o t : c \in C, t \in Texts(C, n - 1)}

\* sequences over S of length 1..n
SeqsUpTo(S, n) == UNION {[1..k -> S] : k \in 1..n}

\* an optional value: <<>> is None, <<v>> is v
None == <<>>
Some(v) == <<v>>
\* Python's truth value of an optional text: None and "" are false
Truthy(o) == o # None /\ o[1] # ""

\* the query strings that set at most n of the names, each to one of the
\* raw texts vals gives for it
Queries(vals, n) ==
    UNION { {f \in [D -> UNION {vals[k] : k \in D}] : \A k \in D : f[k] \in vals[k]} :
            D \in {E \in SUBSET DOMAIN vals : Cardinality(E) <= n} }

\* the raw text of query parameter name, None when the request does not set it
QueryValue(req, name) ==
    IF name \in DOMAIN req.query THEN Some(req.query[name]) ELSE None

(***************************************************************************)
(* Routing: path templates, matching, first-match dispatch.                *)
(***************************************************************************)
Lit(v) == [kind |-> "lit", v |-> v]
\* {name}: one non-empty segment;  {name:path}: the whole rest of the path
Param(name) == [kind |-> "param", name |-> name, conv |-> "str"]
PathParam(name) == [kind |-> "param", name |-> name, conv |-> "path"]

Route(template, endpoint) ==
    [template |-> template, endpoint |-> endpoint, methods |-> {"GET"}]

RECURSIVE Matches(_, _)
Matches(template, path) ==
    IF template = <<>> THEN path = <<>>
    ELSE IF path = <<>> THEN FALSE
    ELSE LET t == Head(template) IN
         IF t.kind = "lit" THEN Head(path) = t.v /\ Matches(Tail(template), Tail(path))
         ELSE IF t.conv = "path" THEN Tail(template) = <<>>
         ELSE Head(path) # "" /\ Matches(Tail(template), Tail(path))

RECURSIVE Join(_)
Join(segs) ==
    IF Len(segs) = 1 THEN Head(segs) ELSE Head(segs) \o "/" \o Join(Tail(segs))

\* the value bound to path parameter name (the route matches the path)
PathValue(template, path, name) ==
    LET i == CHOOSE j \in 1..Len(template) :
                 template[j].kind = "param" /\ template[j].name = name
    IN  IF template[i].conv = "path" THEN Join(SubSeq(path, i, Len(path)))
        ELSE path[i]

FullMatch(routes, req) ==
    {i \in 1..Len(routes) :
        Matches(routes[i].template, req.path) /\ req.method \in routes[i].methods}

PartialMatch(routes, req) ==
    {i \in 1..Len(routes) :
        Matches(routes[i].template, req.path) /\ req.method \notin routes[i].methods}

Min(S) == CHOOSE i \in S : \A j \in S : i <= j

\* the path with its trailing slash removed, or added
ToggleSlash(path) ==
    IF path[Len(path)] = "" THEN SubSeq(path, 1, Len(path) - 1)
    ELSE Append(path, "")

\* the router: the first route that matches path and method handles the
\* request; failing that the first whose path alone matches answers 405;
\* failing that a request whose path would match with the trailing slash
\* toggled is redirected; anything else is 404
Dispatch(routes, req) ==
    IF FullMatch(routes, req) # {}
      THEN [kind |-> "full", route |-> Min(FullMatch(routes, req))]
    ELSE IF PartialMatch(routes, req) # {}
      THEN [kind |-> "partial", route |-> Min(PartialMatch(routes, req))]
    ELSE IF /\ req.path # <<"">>
            /\ ToggleSlash(req.path) # <<>>
            /\ \E i \in 1..Len(routes) : Matches(routes[i].template, ToggleSlash(req.path))
      THEN [kind |-> "redirect", route |-> 0]
    ELSE [kind |-> "none", route |-> 0]

(***************************************************************************)
(* Responses.                                                              *)
(***************************************************************************)
\* the endpoint e of the chosen route ran and returned body
Ok(e, body) == [status |-> 200, endpoint |-> e, called |-> TRUE, body |-> body]

\* the route of endpoint e was chosen but a declared parameter failed
\* validation: the endpoint is not called
Invalid(e, what) ==
    [status |-> 422, endpoint |-> e, called |-> FALSE, body |-> [detail |-> what]]

NotRouted(d, path) ==
    IF d.kind = "partial"
      THEN [status |-> 405, endpoint |-> "", called |-> FALSE,
            body |-> [detail |-> "Method Not Allowed"]]
    ELSE IF d.kind = "redirect"
      THEN [status |-> 307, endpoint |-> "", called |-> FALSE,
            body |-> [location |-> ToggleSlash(path)]]
    ELSE [status |-> 404, endpoint |-> "", called |-> FALSE,
          body |-> [detail |-> "Not Found"]]

NoRequest == [method |-> "", path |-> <<>>, query |-> <<>>]
NoResponse == [status |-> 0, endpoint |-> "", called |-> FALSE, body |-> [none |-> TRUE]]

Methods == {"GET", "POST"}

(***************************************************************************)
(* 01_path_parameters.py                                                   *)
(***************************************************************************)
pp_root == [message |-> "Hello World"]

pp_read_item(item_id) == [item_id |-> item_id]

pp_read_user_me == [user_id |-> "the current user"]

pp_read_user(user_id) == [user_id |-> user_id]

pp_read_user_you == [user_id |-> "not the current user"]

pp_get_users == [list |-> <<"Elmo", "Bert">>]

pp_get_users_too == [list |-> <<"Spongebob", "Patrick">>]

ModelName == {"alexnet", "resnet", "lenet"}

pp_get_model(model_name) ==
    IF model_name = "alexnet"
      THEN [model_name |-> model_name, message |-> "Deep Learning FTW!"]
    ELSE IF model_name = "lenet"
      THEN [model_name |-> model_name, message |-> "LeCNN all the images"]
    ELSE [model_name |-> model_name, message |-> "Have some residuals"]

\* the endpoint returns a set literal
pp_read_file(file_path) == [set |-> {"file_path", file_path}]

\* /users/{user_id} registered before /users/me
pp_routes_user_first ==
    << Route(<<Lit("")>>, "root"),
       Route(<<Lit("items"), Param("item_id")>>, "read_item"),
       Route(<<Lit("users"), Param("user_id")>>, "read_user"),
       Route(<<Lit("users"), Lit("me")>>, "read_user_me"),
       Route(<<Lit("users"), Lit("you")>>, "read_user_you"),
       Route(<<Lit("users")>>, "get_users"),
       Route(<<Lit("users")>>, "get_users_too"),
       Route(<<Lit("models"), Param("model_name")>>, "get_model"),
       Route(<<Lit("files"), PathParam("file_path")>>, "read_file") >>

\* /users/you registered before /users/{user_id}
pp_routes_you_first ==
    << Route(<<Lit("")>>, "root"),
       Route(<<Lit("items"), Param("item_id")>>, "read_item"),
       Route(<<Lit("users"), Lit("me")>>, "read_user_me"),
       Route(<<Lit("users"), Lit("you")>>, "read_user_you"),
       Route(<<Lit("users"), Param("user_id")>>, "read_user"),
       Route(<<Lit("users")>>, "get_users"),
       Route(<<Lit("users")>>, "get_users_too"),
       Route(<<Lit("models"), Param("model_name")>>, "get_model"),
       Route(<<Lit("files"), PathParam("file_path")>>, "read_file") >>

\* the routes in the order the decorators run
pp_routes ==
    << Route(<<Lit("")>>, "root"),
       Route(<<Lit("items"), Param("item_id")>>, "read_item"),
       Route(<<Lit("users"), Lit("me")>>, "read_user_me"),
       Route(<<Lit("users"), Param("user_id")>>, "read_user"),
       Route(<<Lit("users"), Lit("you")>>, "read_user_you"),
       Route(<<Lit("users")>>, "get_users"),
       Route(<<Lit("users")>>, "get_users_too"),
       Route(<<Lit("models"), Param("model_name")>>, "get_model"),
       Route(<<Lit("files"), PathParam("file_path")>>, "read_file") >>

\* parameter validation and the call of the endpoint of route i
pp_call(i, req) ==
    LET e == pp_routes[i].endpoint
        arg(name) == PathValue(pp_routes[i].template, req.path, name)
    IN
    CASE e = "root" -> Ok(e, pp_root)
      [] e = "read_item" ->
             IF IsInt(arg("item_id"))
               THEN Ok(e, pp_read_item(IntOf(arg("item_id"))))
               ELSE Invalid(e, "item_id")
      [] e = "read_user_me" -> Ok(e, pp_read_user_me)
      [] e = "read_user" -> Ok(e, pp_read_user(arg("user_id")))
      [] e = "read_user_you" -> Ok(e, pp_read_user_you)
      [] e = "get_users" -> Ok(e, pp_get_users)
      [] e = "get_users_too" -> Ok(e, pp_get_users_too)
      [] e = "get_model" ->
             IF arg("model_name") \in ModelName
               THEN Ok(e, pp_get_model(arg("model_name")))
               ELSE Invalid(e, "model_name")
      [] e = "read_file" -> Ok(e, pp_read_file(arg("file_path")))

pp_app(req) ==
    LET d == Dispatch(pp_routes, req) IN
    IF d.kind = "full" THEN pp_call(d.route, req) ELSE NotRouted(d, req.path)

pp_Segments == {"", "users", "me", "you", "items", "5", "models", "alexnet",
                "lenet", "resnet", "files"}

pp_Requests ==
    [method : Methods, path : SeqsUpTo(pp_Segments, pp_MaxPathLen), query : {<<>>}]

(***************************************************************************)
(* query_parameters.py                                                     *)
(***************************************************************************)
\* the endpoint returns a set literal
qp_root == [set |-> {"Message:", "Hello World"}]

\* an endpoint's result: the value it returns and the list it leaves behind
Result(body, db) == [body |-> body, db |-> db]

\* the endpoint deletes the slice it returns
qp_read_item_14_del(db, skip, limit) ==
    Result([Query_Params |-> "Skip: " \o Str(skip) \o ", Limit: " \o Str(limit),
            Content |-> Slice(db, skip, skip + limit)],
           Slice(db, 0, skip) \o Slice(db, skip + limit, Len(db)))

qp_read_item_14(db, skip, limit) ==
    Result([Query_Params |-> "Skip: " \o Str(skip) \o ", Limit: " \o Str(limit),
            Content |-> Slice(db, skip, skip + limit)],
           db)

qp_read_item_33(item_id, q) ==
    IF Truthy(q) THEN [item_id |-> item_id, q |-> q[1]] ELSE [item_id |-> item_id]

\* item.update(d): the keys of d added to item, or overwritten
Update(item, d) ==
    [k \in DOMAIN item \cup DOMAIN d |-> IF k \in DOMAIN d THEN d[k] ELSE item[k]]

qp_read_item_44(item_id, q, short) ==
    LET item0 == [item_id |-> item_id]
        item1 == IF Truthy(q) THEN Update(item0, [q |-> q[1]]) ELSE item0
    IN  IF ~short
          THEN Update(item1, [description |->
                   "This is an amazing item that has a long description"])
          ELSE item1

qp_read_user_item_67(user_id, item_id, q, short) ==
    LET item0 == [item_id |-> item_id, user_id |-> user_id]
        item1 == IF Truthy(q) THEN Update(item0, [q |-> q[1]]) ELSE item0
    IN  IF ~short
          THEN Update(item1, [description |->
                   "This is not the greatest description, this is a tribute"])
          ELSE item1

qp_read_user_item_86(item_id, needy) == [item_id |-> item_id, needy |-> needy]

\* the routes in the order the decorators run
qp_routes ==
    << Route(<<Lit("")>>, "root"),
       Route(<<Lit("items"), Lit("")>>, "read_item_14"),
       Route(<<Lit("items"), Param("item_id")>>, "read_item_33"),
       Route(<<Lit("items"), Lit("typeconv"), Param("item_id")>>, "read_item_44"),
       Route(<<Lit("users"), Param("user_id"), Lit("items"), Param("item_id")>>,
             "read_user_item_67"),
       Route(<<Lit("items"), Param("item_id")>>, "read_user_item_86") >>

\* a query parameter with a default: the default when the request does not
\* set it
OrDefault(o, default) == IF o = None THEN default ELSE o[1]

\* parameter validation and the call of the endpoint of route i; the result
\* is the response and the list afterwards
qp_call(i, req, db) ==
    LET e == qp_routes[i].endpoint
        arg(name) == PathValue(qp_routes[i].template, req.path, name)
        qv(name) == QueryValue(req, name)
        short == OrDefault(qv("short"), "false")
    IN
    CASE e = "root" -> Result(Ok(e, qp_root), db)
      [] e = "read_item_14" ->
             LET skip == OrDefault(qv("skip"), "0")
                 limit == OrDefault(qv("limit"), "10")
             IN  IF ~IsInt(skip) THEN Result(Invalid(e, "skip"), db)
                 ELSE IF ~IsInt(limit) THEN Result(Invalid(e, "limit"), db)
                 ELSE LET r == qp_read_item_14(db, IntOf(skip), IntOf(limit))
                      IN  Result(Ok(e, r.body), r.db)
      [] e = "read_item_33" ->
             Result(Ok(e, qp_read_item_33(arg("item_id"), qv("q"))), db)
      [] e = "read_item_44" ->
             IF ~IsBool(short) THEN Result(Invalid(e, "short"), db)
             ELSE Result(Ok(e, qp_read_item_44(arg("item_id"), qv("q"), BoolOf(short))), db)
      [] e = "read_user_item_67" ->
             IF ~IsInt(arg("user_id")) THEN Result(Invalid(e, "user_id"), db)
             ELSE IF ~IsBool(short) THEN Result(Invalid(e, "short"), db)
             ELSE Result(Ok(e, qp_read_user_item_67(IntOf(arg("user_id")), arg("item_id"),
                                                    qv("q"), BoolOf(short))), db)
      [] e = "read_user_item_86" ->
             IF qv("needy") = None THEN Result(Invalid(e, "needy"), db)
             ELSE Result(Ok(e, qp_read_user_item_86(arg("item_id"), qv("needy")[1])), db)

qp_app(req, db) ==
    LET d == Dispatch(qp_routes, req) IN
    IF d.kind = "full" THEN qp_call(d.route, req, db)
    ELSE Result(NotRouted(d, req.path), db)

qp_Segments == {"", "items", "users", "typeconv", "5"}

qp_Values ==
    [skip |-> {"1", "-1", "x"}, limit |-> {"2", "-2"}, q |-> {"", "a"},
     short |-> {"True", "maybe"}, needy |-> {"n"}]

qp_Requests ==
    [method : Methods, path : SeqsUpTo(qp_Segments, qp_MaxPathLen),
     query : Queries(qp_Values, MaxParams)]

(***************************************************************************)
(* 04_validations.py                                                       *)
(***************************************************************************)
data ==
    [k \in {"isbn-9781529046137", "imdb-tt0371724", "isbn-9781439512982"} |->
        IF k = "isbn-9781439512982" THEN "Isaac Asimov: The Complete Stories, Vol. 2"
        ELSE "The Hitchhiker's Guide to the Galaxy"]

\* what a call does: return a value or raise an exception
Return(v) == [raised |-> "", value |-> v]
Raise(exc, msg) == [raised |-> exc, value |-> msg]

\* the comparison ignores case
check_valid_id_nocase(id) ==
    IF ~StartsWithAny(ToLower(id), <<"isbn-", "imdb-">>)
      THEN Raise("ValueError", "Invalid ID format, must start with 'isbn-' or 'imdb-'")
      ELSE Return(id)

check_valid_id(id) ==
    IF ~StartsWithAny(id, <<"isbn-", "imdb-">>)
      THEN Raise("ValueError", "Invalid ID format, must start with 'isbn-' or 'imdb-'")
      ELSE Return(id)

FixedItems == <<[item_id |-> "Foo"], [item_id |-> "Bar"]>>

va_read_items_7(q) ==
    IF Truthy(q) THEN [items |-> FixedItems, q |-> q[1]] ELSE [items |-> FixedItems]

va_read_items_validated_17(q) ==
    IF Truthy(q) THEN [items |-> FixedItems, q |-> q[1]] ELSE [items |-> FixedItems]

va_read_items_metadata(q) ==
    IF Truthy(q) THEN [items |-> FixedItems, q |-> q[1]] ELSE [items |-> FixedItems]

\* the body of the endpoints that only pass
Null == [null |-> TRUE]

max_length == 50
min_length == 3

\* the second registration for /items/validated/ put first
va_routes_31_first ==
    << Route(<<Lit("items"), Lit("")>>, "read_items_7"),
       Route(<<Lit("items"), Lit("validated"), Lit("")>>, "read_items_validated_31"),
       Route(<<Lit("items"), Lit("validated"), Lit("")>>, "read_items_validated_17"),
       Route(<<Lit("items"), Lit("validated"), Lit("")>>, "read_items_validated_41"),
       Route(<<Lit("items"), Lit("validated"), Lit("")>>, "read_items_validated_47"),
       Route(<<Lit("items"), Lit("validated"), Lit("")>>, "read_items_validated_53"),
       Route(<<Lit("items"), Lit("metadata"), Lit("")>>, "read_items_metadata"),
       Route(<<Lit("items"), Lit("validated"), Lit("")>>, "read_items_validated_81"),
       Route(<<Lit("items"), Lit("")>>, "read_items_110") >>

\* the routes in the order the decorators run
va_routes ==
    << Route(<<Lit("items"), Lit("")>>, "read_items_7"),
       Route(<<Lit("items"), Lit("validated"), Lit("")>>, "read_items_validated_17"),
       Route(<<Lit("items"), Lit("validated"), Lit("")>>, "read_items_validated_31"),
       Route(<<Lit("items"), Lit("validated"), Lit("")>>, "read_items_validated_41"),
       Route(<<Lit("items"), Lit("validated"), Lit("")>>, "read_items_validated_47"),
       Route(<<Lit("items"), Lit("validated"), Lit("")>>, "read_items_validated_53"),
       Route(<<Lit("items"), Lit("metadata"), Lit("")>>, "read_items_metadata"),
       Route(<<Lit("items"), Lit("validated"), Lit("")>>, "read_items_validated_81"),
       Route(<<Lit("items"), Lit("")>>, "read_items_110") >>

\* parameter validation and the call of the endpoint of route i
va_call(i, req) ==
    LET e == va_routes[i].endpoint
        q == QueryValue(req, "q")
        id == QueryValue(req, "id")
        fixedquery(o) == Len(o[1]) >= min_length /\ Len(o[1]) <= max_length
                         /\ o[1] = "fixedquery"
    IN
    CASE e = "read_items_7" -> Ok(e, va_read_items_7(q))
      [] e = "read_items_validated_17" ->
             IF q # None /\ Len(q[1]) > max_length THEN Invalid(e, "q")
             ELSE Ok(e, va_read_items_validated_17(q))
      [] e = "read_items_validated_31" ->
             IF q # None /\ ~fixedquery(q) THEN Invalid(e, "q") ELSE Ok(e, Null)
      [] e = "read_items_validated_41" ->
             IF q = None \/ ~fixedquery(q) THEN Invalid(e, "q") ELSE Ok(e, Null)
      [] e = "read_items_validated_47" ->
             IF q = None \/ Len(q[1]) < min_length THEN Invalid(e, "q") ELSE Ok(e, Null)
      \* q is the list of the values given for q; a request gives at most
      \* one, fewer than the min_length the list must have
      [] e = "read_items_validated_53" ->
             IF q # None THEN Invalid(e, "q") ELSE Ok(e, Null)
      [] e = "read_items_metadata" ->
             IF q # None /\ Len(q[1]) < min_length THEN Invalid(e, "q")
             ELSE Ok(e, va_read_items_metadata(q))
      \* the list parameter is read from item-query and defaults to None
      [] e = "read_items_validated_81" -> Ok(e, Null)
      [] e = "read_items_110" ->
             IF id # None /\ check_valid_id(id[1]).raised # "" THEN Invalid(e, "id")
             ELSE Ok(e, Null)

va_app(req) ==
    LET d == Dispatch(va_routes, req) IN
    IF d.kind = "full" THEN va_call(d.route, req) ELSE NotRouted(d, req.path)

va_Segments == {"", "items", "validated", "metadata"}

va_Values ==
    [q |-> {Rep("a", n) : n \in 0..MaxQLen} \cup {"fixedquery"},
     id |-> {"isbn-1", "imdb-", "foo", "ISBN-1", "isbn"}]
    @@ ("item-query" :> {"x"})

va_Requests ==
    [method : Methods, path : SeqsUpTo(va_Segments, va_MaxPathLen),
     query : Queries(va_Values, MaxParams)]

\* the ids check_valid_id is tried on: a prefix of a word, then a tail
Words == {"isbn-", "imdb-", "ISBN-", "Imdb-", "isbn_", "xisbn-"}

Prefixes(w) == {SubSeq(w, 1, k) : k \in 0..Len(w)}

Ids ==
    {p \o t : p \in UNION {Prefixes(w) : w \in Words},
              t \in Texts({"9", "-", "i"}, MaxTail)}
    \cup DOMAIN data

(***************************************************************************)
(* The life of a request: a client sends it, the application answers it,   *)
(* the response leaves and the request's data is discarded.                *)
(***************************************************************************)
Receive(Requests) ==
    /\ pc = "idle"
    /\ \E req \in Requests : request' = req
    /\ pc' = "pending"
    /\ UNCHANGED <<response, fake_items_db>>

Send ==
    /\ pc = "done"
    /\ pc' = "idle"
    /\ request' = NoRequest
    /\ response' = NoResponse
    /\ UNCHANGED fake_items_db

Items == <<[item_name |-> "Foo"], [item_name |-> "Bar"], [item_name |-> "Baz"]>>

Init ==
    /\ pc = "idle"
    /\ request = NoRequest
    /\ response = NoResponse
    /\ fake_items_db = Items

pp_Receive == Receive(pp_Requests)

pp_Serve ==
    /\ pc = "pending"
    /\ response' = pp_app(request)
    /\ pc' = "done"
    /\ UNCHANGED <<request, fake_items_db>>

pp_Next == pp_Receive \/ pp_Serve \/ Send

SpecPath == Init /\ [][pp_Next]_vars

qp_Receive == Receive(qp_Requests)

qp_Serve ==
    /\ pc = "pending"
    /\ response' = qp_app(request, fake_items_db).body
    /\ fake_items_db' = qp_app(request, fake_items_db).db
    /\ pc' = "done"
    /\ UNCHANGED request

qp_Next == qp_Receive \/ qp_Serve \/ Send

SpecQuery == Init /\ [][qp_Next]_vars

va_Receive == Receive(va_Requests)

va_Serve ==
    /\ pc = "pending"
    /\ response' = va_app(request)
    /\ pc' = "done"
    /\ UNCHANGED <<request, fake_items_db>>

va_Next == va_Receive \/ va_Serve \/ Send

SpecValid == Init /\ [][va_Next]_vars

(***************************************************************************)
(* check_valid_id on its own: called once on any id.                       *)
(***************************************************************************)
cv_Init ==
    /\ pc = "call"
    /\ request \in [id : Ids]
    /\ response = NoResponse
    /\ fake_items_db = Items

cv_Call ==
    /\ pc = "call"
    /\ response' = check_valid_id(request.id)
    /\ pc' = "returned"
    /\ UNCHANGED <<request, fake_items_db>>

SpecCheck == cv_Init /\ [][cv_Call]_vars

Answered(method, path) ==
    pc = "done" /\ request.method = method /\ request.path = path

\* C1: every GET /users/me is handled by read_user_me and answers
\* {"user_id": "the current user"}; read_user never handles it with
\* user_id = "me".
C1_UsersMe ==
    Answered("GET", <<"users", "me">>) =>
        /\ response = Ok("read_user_me", [user_id |-> "the current user"])
        /\ response # Ok("read_user", [user_id |-> "me"])

C1_Witness ==
    /\ Answered("GET", <<"users", "me">>)
    /\ response.called
    /\ response.endpoint = "read_user_me"

\* C2: read_user_you and get_users_too are never called: GET /users/you is
\* answered by read_user with user_id = "you", and GET /users always answers
\* ['Elmo', 'Bert'], never ['Spongebob', 'Patrick'].
C2_ShadowedNeverCalled ==
    /\ ~(response.called /\ response.endpoint \in {"read_user_you", "get_users_too"})
    /\ Answered("GET", <<"users", "you">>) =>
           response = Ok("read_user", [user_id |-> "you"])
    /\ Answered("GET", <<"users">>) =>
           /\ response = Ok("get_users", [list |-> <<"Elmo", "Bert">>])
           /\ response.body # [list |-> <<"Spongebob", "Patrick">>]

C2_Witness ==
    /\ Answered("GET", <<"users", "you">>)
    /\ response.called
    /\ response.endpoint = "read_user"


\* the request is to the path /items/{item_id}
ToItem == Matches(<<Lit("items"), Param("item_id")>>, request.path)

\* C3: in the query_parameters app a GET /items/{item_id} that does not set
\* needy gets an error response; no handler answers it successfully.
C3_NeedyRequired ==
    (pc = "done" /\ request.method = "GET" /\ ToItem /\ "needy" \notin DOMAIN request.query)
        => (~response.called /\ response.status >= 400)

\* C6: no handler of the query_parameters app modifies fake_items_db: it is
\* always Foo, Bar, Baz in that order, and the response to a request is the
\* one the application gives on the untouched list, whatever came before.
C6_ListUnchanged ==
    /\ fake_items_db = <<[item_name |-> "Foo"], [item_name |-> "Bar"], [item_name |-> "Baz"]>>
    /\ pc = "done" => response = qp_app(request, Items).body

C6_Witness ==
    /\ Answered("GET", <<"items", "">>)
    /\ response.called
    /\ response.endpoint = "read_item_14"
    /\ Len(response.body.Content) > 0
    /\ Len(response.body.Content) < 3

\* C4: in the 04_validations app a GET /items/ whose id is supplied and
\* starts with neither "isbn-" nor "imdb-" is rejected by check_valid_id and
\* is not answered successfully by any handler.
C4_IdValidated ==
    (/\ Answered("GET", <<"items", "">>)
     /\ "id" \in DOMAIN request.query
     /\ ~StartsWith(request.query["id"], "isbn-")
     /\ ~StartsWith(request.query["id"], "imdb-"))
        => (~response.called /\ response.status = 422)

LaterValidated ==
    {"read_items_validated_31", "read_items_validated_41", "read_items_validated_47",
     "read_items_validated_53", "read_items_validated_81"}

Accepted(id) ==
    /\ Len(id) >= 5
    /\ SubSeq(id, 1, 1) = "i"
    /\ SubSeq(id, 5, 5) = "-"
    /\ SubSeq(id, 2, 4) \in {"sbn", "mdb"}

\* C5: check_valid_id(id) raises ValueError if and only if id starts with
\* neither "isbn-" nor "imdb-", and otherwise returns id unchanged; "isbn-"
\* and "imdb-" alone are accepted, other cases of the letters are not, and
\* an id is accepted whether or not it is a key of data.
C5_CheckValidId ==
    pc = "returned" =>
        /\ (response.raised = "ValueError") <=> ~Accepted(request.id)
        /\ Accepted(request.id) => response = Return(request.id)
        /\ response.raised \in {"", "ValueError"}
        /\ request.id \in {"isbn-", "imdb-"} => response.raised = ""
        /\ request.id \in {"ISBN-", "Imdb-", "ISBN-9"} => response.raised = "ValueError"
        /\ (Accepted(request.id) /\ request.id \notin DOMAIN data) => response.raised = ""

C5_Witness ==
    /\ pc = "returned"
    /\ request.id = "isbn-"
    /\ request.id \notin DOMAIN data
    /\ response = Return("isbn-")

====
